---- MODULE Spec2Model ----
(***************************************************************************)
(* Model of siem.LogS3 (source/lambda/es_loader/siem/__init__.py): one     *)
(* log object in the object store, the LogS3 instance built for each job   *)
(* that names it, and the work queue that carries the continuation jobs.   *)
(*                                                                         *)
(* The decoded body of the object is kept in the shape its reader sees:    *)
(*   lines      <<1, 2, .., n>>            text, csv, FireLens             *)
(*   multiline  <<TRUE, FALSE, ..>>        TRUE: the line matches          *)
(*                                         multiline_firstline             *)
(*   json       << <<v, ..>>, .. >>        one tuple of JSON values per    *)
(*                                         line; v = -1: an object without *)
(*                                         the json_delimiter key, v >= 0: *)
(*                                         an object whose json_delimiter  *)
(*                                         array holds v records           *)
(*   cwl        << [messageType, logEvents], .. >>  concatenated           *)
(*                                         CloudWatch Logs envelopes       *)
(* A yielded record is the tuple of the positions it was read from.        *)
(***************************************************************************)
EXTENDS Integers, Sequences, FiniteSets, TLC

\* ------------------------------------------------------------------ bounds
MaxLines == 21
MaxHeader == 2
MaxMaxLogCount == 3
MaxMultiLines == 4
MaxJsonValues == 2
MaxArray == 1
MaxEnvelopes == 2
MaxEvents == 2
MaxEnqueued == 24
MaxSplit == 12
MaxRecords == 2
MaxReads == 2
MaxDepth == 2

\* -------------------------------------------------------- program constants
SqsBatchSize == 10
MinS3Size == 20
HttpOk == 200

\* the limits of LogParser.json and truncate_big_field
MaxLoadedLen == 65536
MinBigChars == 16383
LuceneMaxBytes == 32766
TruncateAt == 32753
\* len('<<TRUNCATED>>')
TruncatedMarkLen == 13

\* a cached_property that was not read yet
NotCached == -1
\* ignored_reason before any reason was recorded
NoReason == <<>>

\* ----------------------------------------------------------------- helpers
Min(a, b) == IF a <= b THEN a ELSE b

\* Python's seq[a:b] for 0 <= a and any integer b
PySlice(s, a, b) ==
    LET hi == IF b < 0 THEN Len(s) + b ELSE Min(b, Len(s))
    IN  IF hi <= a THEN <<>> ELSE SubSeq(s, a + 1, hi)

RECURSIVE Concat(_)
Concat(ss) == IF ss = <<>> THEN <<>> ELSE Head(ss) \o Concat(Tail(ss))

\* ------------------------------------------------------------------ inputs
FileFormats == {"text", "csv", "json", "multiline"}
S3Bucket == "log-bucket"
KeyPath == <<"logs", "/">>
KeyIgnored == <<"logs", "/", "skip">>
KeyNormal == <<"logs", "/", "app">>
BadStatus == {500}

LinesBodies == {[i \in 1..n |-> i] : n \in 0..MaxLines}
MultilineBodies == UNION {[1..n -> BOOLEAN] : n \in 0..MaxMultiLines}
JsonValues == (-1)..MaxArray
\* the events of an envelope that is no DATA_MESSAGE are never read
Envelopes ==
    [messageType : {"DATA_MESSAGE"}, logEvents : 0..MaxEvents]
        \cup [messageType : {"CONTROL_MESSAGE"}, logEvents : {1}]
CwlBodies == UNION {[1..n -> Envelopes] : n \in 0..MaxEnvelopes}

\* the lines of a JSON body: value i ends its line when eol[i] (the last
\* value always does)
RECURSIVE JsonLines(_, _, _, _)
JsonLines(vals, eol, i, line) ==
    IF i > Len(vals) THEN <<>>
    ELSE IF eol[i] \/ i = Len(vals)
         THEN <<Append(line, vals[i])>> \o JsonLines(vals, eol, i + 1, <<>>)
         ELSE JsonLines(vals, eol, i + 1, Append(line, vals[i]))

JsonBodies ==
    UNION {{JsonLines(vals, eol, 1, <<>>) :
                vals \in [1..n -> JsonValues], eol \in [1..n -> BOOLEAN]} :
           n \in 0..MaxJsonValues}

VARIABLES
    logtype, logconfig, s3obj, sqs_queue,     \* the caller's arguments
    record,                                   \* the job envelope
    pc,
    metadata,                                 \* __iter__'s shard descriptors
    fetched, rawdata,
    is_ignored, ignored_reason,
    log_count, total_log_count,
    window, yielded,
    sqs_calls,
    queue, enqueued,
    lp_pc,                                    \* position of the caller of LogParser
    logdata, logmeta,                         \* the pair the reader yielded
    logdata_dict,                             \* LogParser.__logdata_dict
    logparser,                                \* the other fields of the LogParser
    reads,                                    \* the caller's reads of the properties
    normalized                                \* records passed to the LogParser

lpvars == <<lp_pc, logdata, logmeta, logdata_dict, logparser, reads, normalized>>

vars == <<logtype, logconfig, s3obj, sqs_queue, record, pc, metadata, fetched,
          rawdata, is_ignored, ignored_reason, log_count, total_log_count,
          window, yielded, sqs_calls, queue, enqueued, lpvars>>

\* what no step of a LogS3 changes
env == <<logtype, logconfig, s3obj, sqs_queue, lpvars>>

\* python's None and the empty dict, as the values of the LogParser model
None == [t |-> "none"]
EmptyDict == <<>>

\* no LogParser yet
NoLogParser ==
    /\ lp_pc = "none"
    /\ logdata = None
    /\ logmeta = EmptyDict
    /\ logdata_dict = EmptyDict
    /\ logparser = [logfile |-> [accountid |-> None, region |-> None],
                    accountid |-> None, region |-> None, loggroup |-> None,
                    logstream |-> None, skip_normalization |-> FALSE]
    /\ reads = <<>>
    /\ normalized = 0


via_cwl == logconfig.via_cwl
via_firelens == logconfig.via_firelens
file_format == logconfig.file_format
max_log_count == logconfig.max_log_count
s3bucket == record.s3.bucket.name
s3key == record.s3.object.key


\* the job envelope of a first delivery has no siem member (KeyError -> 0)
start_number_of(rec) ==
    IF "siem" \in DOMAIN rec THEN rec.siem.start_number ELSE 0

end_number_of(rec) ==
    IF "siem" \in DOMAIN rec THEN rec.siem.end_number ELSE 0

start_number == start_number_of(record)
end_number == end_number_of(record)

\* ------------------------------------------------------- LogS3.is_ignored
\* is_ignored without the test of the log type
is_ignored_prop_known_type ==
    IF s3key[Len(s3key)] = "/"
    THEN [value |-> TRUE, reason |-> <<"this s3 key is just path">>]
    ELSE IF logconfig.s3_key_ignored # {} /\ s3key \in logconfig.s3_key_ignored
    THEN [value |-> TRUE, reason |-> <<"s3_key_ignored matched">>]
    ELSE [value |-> FALSE, reason |-> <<>>]

\* the value the cached property computes on its first read, and the reason
\* it records (None: ignored_reason is left unset)
is_ignored_prop ==
    IF s3key[Len(s3key)] = "/"
    THEN [value |-> TRUE, reason |-> <<"this s3 key is just path">>]
    ELSE IF \E i \in DOMAIN logtype : logtype[i] = "unknown"
    THEN [value |-> TRUE, reason |-> <<"unknown log type in S3 key">>]
    ELSE IF logconfig.s3_key_ignored # {} /\ s3key \in logconfig.s3_key_ignored
    THEN [value |-> TRUE, reason |-> <<"s3_key_ignored matched">>]
    ELSE [value |-> FALSE, reason |-> NoReason]

\* ------------------------------------------- LogS3.extract_rawdata_from_s3obj
extract_rawdata_from_s3obj ==
    IF s3obj.size < MinS3Size
    THEN [ignored |-> TRUE, reason |-> <<"no valid contents in s3 object">>,
          body |-> <<>>]
    ELSE [ignored |-> FALSE, reason |-> NoReason, body |-> s3obj.body]

\* ------------------------------------------------------------- the readers
\* CloudWatch Logs: the log events of the DATA_MESSAGE envelopes, in order
RECURSIVE cwl_events(_, _)
cwl_events(body, i) ==
    IF i > Len(body) THEN <<>>
    ELSE (IF body[i].messageType = "DATA_MESSAGE"
          THEN [j \in 1..body[i].logEvents |-> <<i, j>>]
          ELSE <<>>) \o cwl_events(body, i + 1)

\* deco_cwl_logcount: line_num after the whole body was decoded
cwl_logcount(body) == Len(cwl_events(body, 1))

\* extract_cwl_log: line_num is 0-based and tested before it is incremented
extract_cwl_log(body, start, end) ==
    LET ev == cwl_events(body, 1)
        RECURSIVE Pick(_)
        Pick(n) == IF n > Len(ev) THEN <<>>
                   ELSE (IF start <= n - 1 /\ n - 1 < end
                         THEN <<ev[n]>> ELSE <<>>) \o Pick(n + 1)
    IN  Pick(1)

\* extract_firelens_log: one record per line of readlines()[start:end]
extract_firelens_log(body, start, end) ==
    LET ls == PySlice(body, start, end)
    IN  [i \in 1..Len(ls) |-> <<ls[i]>>]

\* text and csv: one record per line of readlines()[start:end]
extract_text_log(body, start, end) ==
    LET ls == PySlice(body, start, end)
    IN  [i \in 1..Len(ls) |-> <<ls[i]>>]

\* the traversal shared by count_logobj_in_json and extract_logobj_from_json:
\* every value of every line; a value with the delimiter key gives one event
\* per array element, a value without it gives one event only when no
\* delimiter is configured
json_value_events(li, vi, v, delimiter) ==
    IF delimiter /\ v >= 0 THEN [k \in 1..v |-> <<li, vi, k>>]
    ELSE IF ~delimiter THEN << <<li, vi, 0>> >>
    ELSE <<>>

RECURSIVE json_events(_, _, _, _)
json_events(body, delimiter, li, vi) ==
    IF li > Len(body) THEN <<>>
    ELSE IF vi > Len(body[li]) THEN json_events(body, delimiter, li + 1, 1)
    ELSE json_value_events(li, vi, body[li][vi], delimiter)
         \o json_events(body, delimiter, li, vi + 1)

count_logobj_in_json(body, delimiter) ==
    Len(json_events(body, delimiter, 1, 1))

\* extract_logobj_from_json: count is incremented before it is tested
extract_logobj_from_json(body, delimiter, start, end) ==
    LET ev == json_events(body, delimiter, 1, 1)
        RECURSIVE Pick(_)
        Pick(count) == IF count > Len(ev) THEN <<>>
                       ELSE (IF start <= count /\ count <= end
                             THEN <<ev[count]>> ELSE <<>>) \o Pick(count + 1)
    IN  Pick(1)

RECURSIVE count_multiline_from(_, _)
count_multiline_from(body, i) ==
    IF i > Len(body) THEN 0
    ELSE (IF body[i] THEN 1 ELSE 0) + count_multiline_from(body, i + 1)

count_multiline_log(body) == count_multiline_from(body, 1)

\* extract_multiline_log: the loop over the lines, then the last log
RECURSIVE multiline_loop(_, _, _, _, _, _, _)
multiline_loop(body, start, end, i, count, multilog, is_in_scope) ==
    IF i > Len(body)
    THEN IF is_in_scope THEN <<multilog>> ELSE <<>>
    ELSE IF body[i]
    THEN IF start < count + 1 /\ count + 1 <= end
         THEN (IF Len(multilog) > 0 THEN <<multilog>> ELSE <<>>)
              \o multiline_loop(body, start, end, i + 1, count + 1, <<i>>, TRUE)
         ELSE multiline_loop(body, start, end, i + 1, count + 1, multilog,
                             is_in_scope)
    ELSE IF is_in_scope
    THEN multiline_loop(body, start, end, i + 1, count, Append(multilog, i),
                        is_in_scope)
    ELSE multiline_loop(body, start, end, i + 1, count, multilog, is_in_scope)

extract_multiline_log(body, start, end) ==
    multiline_loop(body, start, end, 1, 0, <<>>, FALSE)

\* --------------------------------------------------------- LogS3.log_count
\* the value the cached property computes for the job rec, and whether the
\* computation marks the object ignored
log_count_prop(rec) ==
    IF via_cwl
    THEN [value |-> cwl_logcount(rawdata), ignored |-> FALSE]
    ELSE IF end_number_of(rec) = 0
    THEN LET n == IF file_format \in {"text", "csv"} \/ via_firelens
                  THEN Len(rawdata)
                  ELSE IF file_format = "json"
                  THEN count_logobj_in_json(rawdata, logconfig.json_delimiter)
                  ELSE IF file_format \in {"multiline", "xml"}
                  THEN count_multiline_log(rawdata)
                  ELSE 0
         IN  [value |-> n, ignored |-> n = 0]
    ELSE [value |-> end_number_of(rec) - start_number_of(rec),
          ignored |-> FALSE]

\* ------------------------------------------ LogS3.set_start_end_position
ignore_header_line_number ==
    IF via_cwl THEN 0
    ELSE IF file_format = "text" THEN logconfig.text_header_line_number
    ELSE IF file_format = "csv" THEN 1
    ELSE 0

set_start_end_position(rec, lc) ==
    IF start_number_of(rec) <= ignore_header_line_number
    THEN <<ignore_header_line_number,
           IF max_log_count >= lc THEN lc ELSE max_log_count>>
    ELSE <<start_number_of(rec) - 1, end_number_of(rec)>>

\* ---------------------------------------------------- LogS3.logdata_generator
\* the records the reader of the object's format yields for [start, end)
read_window(start, end) ==
    IF via_cwl THEN extract_cwl_log(rawdata, start, end)
    ELSE IF via_firelens THEN extract_firelens_log(rawdata, start, end)
    ELSE IF file_format \in {"text", "csv"}
    THEN extract_text_log(rawdata, start, end)
    ELSE IF file_format = "json"
    THEN extract_logobj_from_json(rawdata, logconfig.json_delimiter, start, end)
    ELSE extract_multiline_log(rawdata, start, end)

logdata_generator(rec, lc) ==
    LET se == set_start_end_position(rec, lc)
    IN  [window |-> se, total_log_count |-> se[2] - se[1],
         records |-> read_window(se[1], se[2])]

\* ---------------------------------------------------------- LogS3.split_logs
\* split_logs without the correction of the last, short range
split_logs_full_last(lc, mlc) ==
    LET mod == lc % mlc
        q == IF mod # 0 THEN (lc \div mlc) + 1 ELSE lc \div mlc
    IN  [k \in 1..q |->
            <<IF k = 1 THEN 1 ELSE (k - 1) * mlc + 1, k * mlc>>]

split_logs(lc, mlc) ==
    LET mod == lc % mlc
        q == IF mod # 0 THEN (lc \div mlc) + 1 ELSE lc \div mlc
    IN  [k \in 1..q |->
            LET x == k - 1
            IN  <<IF x = 0 THEN 1 ELSE x * mlc + 1,
                  IF x = q - 1 /\ mod # 0 THEN x * mlc + mod
                  ELSE (x + 1) * mlc>>]

\* ------------------------------------------------------ LogS3.send_meta_to_sqs
queue_body(start, end) ==
    [siem |-> [start_number |-> start, end_number |-> end],
     s3 |-> [bucket |-> [name |-> s3bucket], object |-> [key |-> s3key]]]

\* sqs_entry that numbers the Id by the end of the range
sqs_entry_end_id(start, end) ==
    [Id |-> <<"num_", end>>, MessageBody |-> queue_body(start, end)]

sqs_entry(start, end) ==
    [Id |-> <<"num_", start>>, MessageBody |-> queue_body(start, end)]

\* send_loop that does not look at the HTTP status of the answer
RECURSIVE send_loop_unchecked(_, _, _, _, _)
send_loop_unchecked(descriptors, resp, i, entries, calls) ==
    IF i > Len(descriptors)
    THEN [calls |-> calls, raised |-> FALSE, last_num |-> Len(descriptors)]
    ELSE LET es == Append(entries,
                          sqs_entry(descriptors[i][1], descriptors[i][2]))
         IN  IF Len(es) = SqsBatchSize \/ i = Len(descriptors)
             THEN send_loop_unchecked(descriptors, resp, i + 1, <<>>,
                      Append(calls, [Entries |-> es,
                                     HTTPStatusCode |-> resp[Len(calls) + 1]]))
             ELSE send_loop_unchecked(descriptors, resp, i + 1, es, calls)

\* the loop over the descriptors (metadata) from item i on; resp[c] is the HTTP status the
\* queue answers to the c-th call of send_messages
RECURSIVE send_loop(_, _, _, _, _)
send_loop(descriptors, resp, i, entries, calls) ==
    IF i > Len(descriptors)
    THEN [calls |-> calls, raised |-> FALSE, last_num |-> Len(descriptors)]
    ELSE LET es == Append(entries,
                          sqs_entry(descriptors[i][1], descriptors[i][2]))
         IN  IF Len(es) = SqsBatchSize \/ i = Len(descriptors)
             THEN LET status == resp[Len(calls) + 1]
                      made == Append(calls, [Entries |-> es,
                                             HTTPStatusCode |-> status])
                  IN  IF status # HttpOk
                      THEN [calls |-> made, raised |-> TRUE,
                            last_num |-> Len(descriptors)]
                      ELSE send_loop(descriptors, resp, i + 1, <<>>, made)
             ELSE send_loop(descriptors, resp, i + 1, es, calls)

\* send_meta_to_sqs that returns the number of calls, not of descriptors
send_meta_to_sqs_calls(descriptors, resp) ==
    LET r == send_loop(descriptors, resp, 1, <<>>, <<>>)
    IN  [r EXCEPT !.last_num = Len(r.calls)]

send_meta_to_sqs(descriptors, resp) ==
    send_loop(descriptors, resp, 1, <<>>, <<>>)

\* the message bodies the queue accepted in a sequence of calls
Accepted(calls) ==
    UNION {{calls[c].Entries[e].MessageBody : e \in DOMAIN calls[c].Entries} :
           c \in {d \in DOMAIN calls : calls[d].HTTPStatusCode = HttpOk}}

RECURSIVE AcceptedCount(_)
AcceptedCount(calls) ==
    IF calls = <<>> THEN 0
    ELSE (IF Head(calls).HTTPStatusCode = HttpOk
          THEN Len(Head(calls).Entries) ELSE 0) + AcceptedCount(Tail(calls))

\* ------------------------------------------------------------------- Init
\* Options the code never reads for a configuration are left at one value:
\* text_header_line_number is read for text only, json_delimiter by the JSON
\* reader only, and via_cwl takes precedence over every other format option.
LogConfigs ==
    {c \in [file_format : FileFormats, via_cwl : BOOLEAN,
            via_firelens : BOOLEAN,
            text_header_line_number : 0..MaxHeader,
            json_delimiter : BOOLEAN,
            max_log_count : 1..MaxMaxLogCount,
            s3_key_ignored : {{}, {KeyIgnored}}] :
        /\ c.text_header_line_number # 0 => c.file_format = "text" /\ ~c.via_cwl
        /\ c.json_delimiter =>
              c.file_format = "json" /\ ~c.via_cwl /\ ~c.via_firelens
        /\ c.via_cwl => ~c.via_firelens /\ c.file_format \in {"text", "json"}}

Bodies(c) ==
    IF c.via_cwl THEN CwlBodies
    ELSE IF c.via_firelens \/ c.file_format \in {"text", "csv"} THEN LinesBodies
    ELSE IF c.file_format = "json" THEN JsonBodies
    ELSE MultilineBodies

\* an object that no ignore rule of the constructor applies to
Plain(k, t, c, size) ==
    /\ k = KeyNormal
    /\ t = <<"elb">>
    /\ c.s3_key_ignored = {}
    /\ size >= MinS3Size

Init ==
    /\ \E k \in {KeyPath, KeyIgnored, KeyNormal} :
          record = [s3 |-> [bucket |-> [name |-> S3Bucket],
                            object |-> [key |-> k]]]
    /\ logtype \in {<<"unknown">>, <<"elb">>}
    /\ logconfig \in LogConfigs
    /\ sqs_queue \in BOOLEAN
    /\ \E size \in {MinS3Size - 1, MinS3Size} :
       \E body \in Bodies(logconfig) :
          /\ Plain(s3key, logtype, logconfig, size)
             \/ /\ logconfig.file_format = "text"
                /\ ~logconfig.via_cwl /\ ~logconfig.via_firelens
                /\ logconfig.text_header_line_number = 0
                /\ logconfig.max_log_count = 1
                /\ Len(body) \in 1..2
                /\ sqs_queue
          /\ s3obj = [size |-> size, body |-> body]
    /\ pc = "received"
    /\ metadata = <<>>
    /\ fetched = FALSE
    /\ rawdata = <<>>
    /\ is_ignored = FALSE
    /\ ignored_reason = NoReason
    /\ log_count = NotCached
    /\ total_log_count = NotCached
    /\ window = <<>>
    /\ yielded = <<>>
    /\ sqs_calls = <<>>
    /\ queue = {}
    /\ enqueued = 0
    /\ NoLogParser

no_valid_logs_reason == <<"there are not any valid logs in S3 object">>

split_reason(sent_count) ==
    <<"Log file was split into ", sent_count, " pieces and sent to SQS.">>

\* ------------------------------------------------------------ LogS3.__init__
LogS3Init ==
    /\ pc = "received"
    /\ pc' = "constructed"
    /\ IF is_ignored_prop.value
       THEN /\ is_ignored' = TRUE
            /\ ignored_reason' = is_ignored_prop.reason
            /\ UNCHANGED <<fetched, rawdata>>
       ELSE /\ fetched' = TRUE
            /\ rawdata' = extract_rawdata_from_s3obj.body
            /\ is_ignored' = extract_rawdata_from_s3obj.ignored
            /\ ignored_reason' = extract_rawdata_from_s3obj.reason
    /\ UNCHANGED <<env, record, metadata, log_count, total_log_count, window,
                   yielded, sqs_calls, queue, enqueued>>

\* -------------------------------- LogS3.log_count read by the caller
ReadLogCount ==
    /\ pc = "constructed"
    /\ ~is_ignored
    /\ log_count = NotCached
    /\ log_count' = log_count_prop(record).value
    /\ is_ignored' = log_count_prop(record).ignored
    /\ ignored_reason' = IF log_count_prop(record).ignored
                         THEN no_valid_logs_reason
                         ELSE ignored_reason
    /\ UNCHANGED <<env, record, pc, metadata, fetched, rawdata,
                   total_log_count, window, yielded, sqs_calls, queue,
                   enqueued>>

\* ------------------------------------------------------------ LogS3.__iter__
\* the iterator run to its end; resp is what the queue answers to each call
IterIgnored ==
    /\ pc = "constructed"
    /\ is_ignored
    /\ pc' = "done"
    /\ UNCHANGED <<env, record, metadata, fetched, rawdata, is_ignored,
                   ignored_reason, log_count, total_log_count, window, yielded,
                   sqs_calls, queue, enqueued>>

IterSplit(resp) ==
    LET lcp == log_count_prop(record)
        lc == IF log_count = NotCached THEN lcp.value ELSE log_count
        descriptors == split_logs(lc, max_log_count)
        sent == send_meta_to_sqs(descriptors, resp)
    IN  /\ pc = "constructed"
        /\ ~is_ignored
        /\ lc >= max_log_count
        /\ sqs_queue
        /\ log_count' = lc
        /\ sqs_calls' = sent.calls
        /\ queue' = queue \cup Accepted(sent.calls)
        /\ enqueued' = enqueued + AcceptedCount(sent.calls)
        /\ IF sent.raised
           THEN /\ pc' = "raised"
                /\ UNCHANGED <<is_ignored, ignored_reason, total_log_count>>
           ELSE /\ pc' = "done"
                /\ is_ignored' = TRUE
                /\ total_log_count' = 0
                /\ ignored_reason' = split_reason(sent.last_num)
        /\ metadata' = descriptors
        /\ UNCHANGED <<env, record, fetched, rawdata, window, yielded>>

IterYield ==
    LET lcp == log_count_prop(record)
        lc == IF log_count = NotCached THEN lcp.value ELSE log_count
        gen == logdata_generator(record, lc)
    IN  /\ pc = "constructed"
        /\ ~is_ignored
        /\ ~(lc >= max_log_count /\ sqs_queue)
        /\ log_count' = lc
        /\ is_ignored' = IF log_count = NotCached THEN lcp.ignored
                         ELSE is_ignored
        /\ ignored_reason' = IF log_count = NotCached /\ lcp.ignored
                             THEN no_valid_logs_reason
                             ELSE ignored_reason
        /\ window' = gen.window
        /\ total_log_count' = gen.total_log_count
        /\ yielded' = gen.records
        /\ pc' = "done"
        /\ UNCHANGED <<env, record, metadata, fetched, rawdata, sqs_calls,
                       queue, enqueued>>

\* the answers of the queue: every call accepted, or call failAt refused
Responses ==
    {[c \in 1..(MaxLines + 1) |-> IF c = failAt THEN st ELSE HttpOk] :
        failAt \in 0..((MaxLines \div SqsBatchSize) + 1), st \in BadStatus}

Iter ==
    \/ IterIgnored
    \/ \E resp \in Responses : IterSplit(resp)
    \/ IterYield

\* --------------------------------------------- delivery of a continuation job
\* the caller builds a new LogS3 for a job envelope taken from the work queue
Receive ==
    /\ pc \in {"done", "raised"}
    /\ enqueued <= MaxEnqueued
    /\ \E body \in queue : record' = body
    /\ pc' = "received"
    /\ fetched' = FALSE
    /\ rawdata' = <<>>
    /\ is_ignored' = FALSE
    /\ ignored_reason' = NoReason
    /\ log_count' = NotCached
    /\ total_log_count' = NotCached
    /\ window' = <<>>
    /\ yielded' = <<>>
    /\ sqs_calls' = <<>>
    /\ metadata' = <<>>
    /\ UNCHANGED <<env, queue, enqueued>>

Next == LogS3Init \/ ReadLogCount \/ Iter \/ Receive

Spec == Init /\ [][Next]_vars

\* ------------------------------------------- split_logs as a pure function
DefaultConfig ==
    [file_format |-> "text", via_cwl |-> FALSE, via_firelens |-> FALSE,
     text_header_line_number |-> 0, json_delimiter |-> FALSE,
     max_log_count |-> 1, s3_key_ignored |-> {}]

InitSplit ==
    /\ record = [s3 |-> [bucket |-> [name |-> S3Bucket],
                         object |-> [key |-> KeyNormal]]]
    /\ logtype = <<"elb">>
    /\ \E m \in 1..MaxSplit :
          logconfig = [DefaultConfig EXCEPT !.max_log_count = m]
    /\ sqs_queue = TRUE
    /\ s3obj = [size |-> MinS3Size, body |-> <<>>]
    /\ pc = "split_logs"
    /\ metadata = <<>>
    /\ fetched = FALSE
    /\ rawdata = <<>>
    /\ is_ignored = FALSE
    /\ ignored_reason = NoReason
    /\ log_count \in 1..MaxSplit
    /\ total_log_count = NotCached
    /\ window = <<>>
    /\ yielded = <<>>
    /\ sqs_calls = <<>>
    /\ queue = {}
    /\ enqueued = 0
    /\ NoLogParser

SplitLogs ==
    /\ pc = "split_logs"
    /\ metadata' = split_logs(log_count, max_log_count)
    /\ pc' = "split_done"
    /\ UNCHANGED <<env, record, fetched, rawdata, is_ignored, ignored_reason,
                   log_count, total_log_count, window, yielded, sqs_calls,
                   queue, enqueued>>

SpecSplit == InitSplit /\ [][SplitLogs]_vars

\* ===================================================================
\* LogParser: the normalization of one yielded record
\* ===================================================================

\* ---------------------------------------------------- python values
\* A value carries its python type in t.  A str is a tuple of tokens, so
\* that concatenation and hashing keep their arguments apart; a dict is a
\* function from keys to values.
Str(tokens) == [t |-> "str", v |-> tokens]
Bool(b) == [t |-> "bool", v |-> b]
Dict(f) == [t |-> "dict", v |-> f]
List(s) == [t |-> "list", v |-> s]

\* hashlib.md5(text).hexdigest(): a str of 32 hex digits that names its text
Md5(tokens) == [t |-> "str", v |-> <<"md5(">> \o tokens \o <<")">>, of |-> tokens]
IsMd5(value) == value.t = "str" /\ "of" \in DOMAIN value

\* python's truth value of a value
Truthy(value) ==
    CASE value.t = "none" -> FALSE
      [] value.t = "bool" -> value.v
      [] value.t = "str" -> value.v # <<>>
      [] value.t = "list" -> value.v # <<>>
      [] value.t = "dict" -> DOMAIN value.v # {}

HasKey(d, k) == k \in DOMAIN d
\* d.get(k)
Get(d, k) == IF k \in DOMAIN d THEN d[k] ELSE None
\* d[k] = value
Put(d, k, value) == (k :> value) @@ d
\* del d[k]
Del(d, k) == [x \in DOMAIN d \ {k} |-> d[x]]

\* utils.merge_dicts(a, b): b merged into a, dicts merged key by key and
\* every other value of b overriding the value of a
RECURSIVE merge_dicts(_, _)
merge_dicts(a, b) ==
    [k \in DOMAIN a \cup DOMAIN b |->
        IF k \notin DOMAIN b THEN a[k]
        ELSE IF k \notin DOMAIN a THEN b[k]
        ELSE IF a[k].t = "dict" /\ b[k].t = "dict"
        THEN Dict(merge_dicts(a[k].v, b[k].v))
        ELSE b[k]]

\* ------------------------------------------------------- raw log texts
\* A log text names what json.loads makes of it (parsed, when it is valid
\* JSON) and what log_pattern extracts from it (groups, when it matches).
JsonText(tokens, fields) == [t |-> "str", v |-> tokens, parsed |-> fields]
PatternText(tokens, fields) == [t |-> "str", v |-> tokens, groups |-> fields]
IsJsonText(text) == "parsed" \in DOMAIN text
MatchesPattern(text) == "groups" \in DOMAIN text

\* json.loads(text) of a valid text: the dict, which remembers its text
json_loads(text) == [t |-> "dict", v |-> text.parsed, src |-> text.v]

\* json.dumps(logdata) as add_basic_field calls it
json_dumps(value) ==
    IF value.t = "dict" THEN Str(<<"dumps">> \o value.src)
    ELSE Str(<<"\"">> \o value.v \o <<"\"">>)

\* str(logdata)
str(value) == Str(value.v)

\* --------------------------------------- LogS3.extract_firelens_log
invalid_format_message == Str(<<"Invalid file format found during parsing">>)
stderr_reason == Str(<<"log is container's stderr">>)

\* the body of the loop for one line obj of the object
extract_firelens_line(obj) ==
    LET ignore_container_stderr_bool == logconfig.ignore_container_stderr
        basic == ("container_id" :> Get(obj, "container_id"))
                 @@ ("container_name" :> Get(obj, "container_name"))
                 @@ ("container_source" :> Get(obj, "source"))
                 @@ ("ecs_cluster" :> Get(obj, "ecs_cluster"))
                 @@ ("ecs_task_arn" :> Get(obj, "ecs_task_arn"))
                 @@ ("ecs_task_definition" :> Get(obj, "ecs_task_definition"))
        with_ec2 == IF Truthy(Get(obj, "ec2_instance_id"))
                    THEN Put(basic, "ec2_instance_id", obj["ec2_instance_id"])
                    ELSE basic
        log == obj["log"]
        with_stderr ==
            IF with_ec2["container_source"] = Str(<<"stderr">>)
            THEN IF ignore_container_stderr_bool
                 THEN Put(Put(with_ec2, "is_ignored", Bool(TRUE)),
                          "ignored_reason", stderr_reason)
                 ELSE Put(Put(with_ec2, "__skip_normalization", Bool(TRUE)),
                          "__error_message", log)
            ELSE with_ec2
    IN  IF file_format = "json"
        THEN IF IsJsonText(log)
             THEN [logdata |-> json_loads(log), logmeta |-> with_stderr]
             ELSE LET skipped == Put(with_stderr, "__skip_normalization",
                                     Bool(TRUE))
                  IN  [logdata |-> log,
                       logmeta |->
                           IF HasKey(skipped, "__error_message")
                           THEN Put(skipped, "__error_message",
                                    invalid_format_message)
                           ELSE skipped]
        ELSE [logdata |-> log, logmeta |-> with_stderr]

\* ------------------------------------------------ LogParser.__call__
\* the fields of the instance that __call__ takes from the meta
call_fields(lp, meta) ==
    IF DOMAIN meta = {} THEN lp
    ELSE LET acc1 == IF HasKey(meta, "cwl_accountid")
                     THEN meta["cwl_accountid"] ELSE lp.accountid
             acc2 == IF HasKey(meta, "cwe_accountid")
                     THEN meta["cwe_accountid"] ELSE acc1
         IN  [lp EXCEPT !.logstream = Get(meta, "logstream"),
                        !.loggroup = Get(meta, "loggroup"),
                        !.accountid = acc2,
                        !.region = IF HasKey(meta, "cwe_region")
                                   THEN meta["cwe_region"] ELSE lp.region]

\* logdata_to_dict; text_logdata_to_dict raises when log_pattern does not
\* match
logdata_to_dict(data, meta) ==
    IF HasKey(meta, "is_ignored") \/ HasKey(meta, "__skip_normalization")
    THEN [raised |-> FALSE, dict |-> EmptyDict]
    ELSE IF file_format = "json"
    THEN [raised |-> FALSE, dict |-> data.v]
    ELSE IF MatchesPattern(data)
    THEN [raised |-> FALSE, dict |-> data.groups]
    ELSE [raised |-> TRUE, dict |-> EmptyDict]

\* the merge of the meta into the dict, "for compatibility"
with_firelens_meta(d, meta) ==
    IF Truthy(Get(meta, "container_name")) THEN meta @@ d ELSE d

\* the is_ignored property, with no exclude_log_patterns for the logtype
parser_is_ignored(d) == Truthy(Get(d, "is_ignored"))

\* set_skip_normalization
set_skip_normalization(d) ==
    IF Truthy(Get(d, "__skip_normalization"))
    THEN [skip |-> TRUE, dict |-> Del(d, "__skip_normalization")]
    ELSE [skip |-> FALSE, dict |-> d]

\* the @id with the raw value of the doc_id field hashed
basic_id_hashed(d, data, skip) ==
    LET message == IF file_format = "json" THEN json_dumps(data)
                   ELSE str(data)
    IN  IF skip THEN Md5(message.v \o s3key)
        ELSE IF logconfig.doc_id # ""
        THEN IF HasKey(d, logconfig.doc_id)
             THEN Md5(d[logconfig.doc_id].v) ELSE None
        ELSE Md5(message.v)

\* the @id of add_basic_field; None stands for the KeyError of a record
\* without the doc_id field
basic_id(d, data, skip) ==
    LET message == IF file_format = "json" THEN json_dumps(data)
                   ELSE str(data)
    IN  IF skip THEN Md5(message.v \o s3key)
        ELSE IF logconfig.doc_id # ""
        THEN IF HasKey(d, logconfig.doc_id)
             THEN d[logconfig.doc_id] ELSE None
        ELSE Md5(message.v)

\* add_basic_field
add_basic_field(d, data, lp, skip) ==
    LET message == IF file_format = "json" THEN json_dumps(data)
                   ELSE str(data)
        id == basic_id(d, data, skip)
        basic0 == ("@message" :> message)
                  @@ ("event" :> Dict(("module" :> Str(logtype))
                                      @@ ("ingested" :> Str(<<"now">>))))
                  @@ ("@timestamp" :> Str(<<"now">>))
                  @@ ("@log_type" :> Str(logtype))
                  @@ ("@id" :> id)
                  @@ ("@log_s3bucket" :> Str(<<s3bucket>>))
                  @@ ("@log_s3key" :> Str(s3key))
        basic_dict == IF Truthy(lp.loggroup)
                      THEN ("@log_group" :> lp.loggroup)
                           @@ ("@log_stream" :> lp.logstream) @@ basic0
                      ELSE basic0
    IN  IF id = None THEN [raised |-> TRUE, dict |-> d]
        ELSE [raised |-> FALSE, dict |-> merge_dicts(d, basic_dict)]

\* part i of a str split at ":" (ecs_task_arn.split(':')[i])
split_colon(text, i) == Str(<<text.v[2 * i + 1]>>)

\* utils.value_from_nesteddict_by_dottedkeylist for one top-level key: the
\* value when it is there and true, otherwise None
value_from_nesteddict(d, key) ==
    IF HasKey(d, key) /\ Truthy(d[key]) THEN d[key] ELSE None

\* get_value_and_input_into_ecs_dict for logconfig['ecs'] =
\* 'cloud.account.id cloud.region', taken from ecs_account and ecs_region
get_value_and_input_into_ecs_dict(d, ecs_dict) ==
    LET account == value_from_nesteddict(d, logconfig.ecs_account)
        region == value_from_nesteddict(d, logconfig.ecs_region)
        with_account ==
            IF Truthy(account)
            THEN merge_dicts(ecs_dict,
                     "cloud" :> Dict("account" :> Dict("id" :> account)))
            ELSE ecs_dict
    IN  IF Truthy(region)
        THEN merge_dicts(with_account, "cloud" :> Dict("region" :> region))
        ELSE with_account

\* "Set AWS Account ID"
cloud_account(cloud, lp) ==
    IF HasKey(cloud, "account") /\ HasKey(cloud["account"].v, "id")
    THEN IF cloud["account"].v["id"] = Str(<<"unknown">>)
         THEN Put(cloud, "account", Dict("id" :> lp.accountid))
         ELSE cloud
    ELSE IF Truthy(lp.accountid)
    THEN Put(cloud, "account", Dict("id" :> lp.accountid))
    ELSE Put(cloud, "account", Dict("id" :> Str(<<"unknown">>)))

\* "Set AWS Region"
cloud_region(cloud, lp) ==
    IF HasKey(cloud, "region") THEN cloud
    ELSE IF Truthy(lp.region) THEN Put(cloud, "region", lp.region)
    ELSE Put(cloud, "region", Str(<<"unknown">>))

\* transform_to_ecs, with no static_ecs
transform_to_ecs(d, meta, lp) ==
    LET ecs0 == "ecs" :> Dict("version" :> Str(<<logconfig.ecs_version>>))
        ecs1 == IF logconfig.cloud_provider # ""
                THEN Put(ecs0, "cloud", Dict("provider" :>
                                  Str(<<logconfig.cloud_provider>>)))
                ELSE ecs0
        ecs2 == get_value_and_input_into_ecs_dict(d, ecs1)
        ecs3 == IF HasKey(ecs2, "cloud")
                THEN Put(ecs2, "cloud",
                         Dict(cloud_region(cloud_account(ecs2["cloud"].v, lp),
                                           lp)))
                ELSE ecs2
        firelens == HasKey(meta, "ecs_task_arn")
        arn == meta["ecs_task_arn"]
        \* None.split and ecs_dict['cloud'] raise
        arn_raises == firelens /\ (arn.t # "str" \/ ~HasKey(ecs3, "cloud"))
        cloud4 == LET c0 == ecs3["cloud"].v
                      c1 == Put(c0, "account",
                                Dict(Put(c0["account"].v, "id",
                                         split_colon(arn, 4))))
                      c2 == Put(c1, "region", split_colon(arn, 3))
                  IN  IF HasKey(meta, "ec2_instance_id")
                      THEN Put(c2, "instance",
                               Dict("id" :> meta["ec2_instance_id"]))
                      ELSE c2
        ecs4 == IF firelens
                THEN Put(Put(ecs3, "cloud", Dict(cloud4)), "container",
                         Dict(("id" :> meta["container_id"])
                              @@ ("name" :> meta["container_name"])))
                ELSE ecs3
        has_error == HasKey(meta, "__error_message")
        \* del of a key that is not in the dict raises
        error_raises == has_error /\ ~HasKey(d, "__error_message")
        with_error == IF has_error
                      THEN Del(Put(d, "error",
                                   Dict("message" :> meta["__error_message"])),
                               "__error_message")
                      ELSE d
    IN  IF arn_raises THEN [raised |-> TRUE, dict |-> d]
        ELSE IF error_raises
        THEN [raised |-> TRUE,
              dict |-> Put(d, "error",
                           Dict("message" :> meta["__error_message"]))]
        ELSE [raised |-> FALSE, dict |-> merge_dicts(with_error, ecs4)]

\* transform_by_script: sf_module.transform is supplied by the user; it may
\* set the sentinels named in sentinels
doc_id_suffix_value == Str(<<"sfx">>)
index_name_value == Str(<<"log-script">>)

transform_by_script(d, sentinels) ==
    IF ~logconfig.script_ecs THEN d
    ELSE LET d1 == IF "__doc_id_suffix" \in sentinels
                   THEN Put(d, "__doc_id_suffix", doc_id_suffix_value) ELSE d
         IN  IF "__index_name" \in sentinels
             THEN Put(d1, "__index_name", index_name_value) ELSE d1

\* '{0}_{1}'.format(id, suffix)
id_with_suffix(id, suffix) == Str(id.v \o <<"_">> \o suffix.v)

\* ------------------------------------------------ LogParser.doc_id
doc_id(d) ==
    IF HasKey(d, "__doc_id_suffix")
    THEN [value |-> id_with_suffix(d["@id"], d["__doc_id_suffix"]),
          dict |-> Del(d, "__doc_id_suffix")]
    ELSE IF logconfig.doc_id_suffix # ""
            /\ Truthy(value_from_nesteddict(d, logconfig.doc_id_suffix))
    THEN [value |-> id_with_suffix(d["@id"], d[logconfig.doc_id_suffix]),
          dict |-> d]
    ELSE [value |-> d["@id"], dict |-> d]

\* ---------------------------------------------- LogParser.indexname
\* index_dt.strftime of the rotation
rotation_suffix ==
    IF logconfig.index_rotation = "daily" THEN <<"-%Y-%m-%d">>
    ELSE IF logconfig.index_rotation = "weekly" THEN <<"-%Y-w%W">>
    ELSE IF logconfig.index_rotation = "monthly" THEN <<"-%Y-%m">>
    ELSE <<"-%Y">>

indexname(d) ==
    LET name == IF HasKey(d, "__index_name") THEN d["__index_name"]
                ELSE Str(<<logconfig.index_name>>)
        dict == IF HasKey(d, "__index_name") THEN Del(d, "__index_name")
                ELSE d
    IN  IF logconfig.index_rotation = "auto"
        THEN [value |-> name, dict |-> dict]
        ELSE [value |-> Str(name.v \o rotation_suffix), dict |-> dict]

\* ------------------------------------------------ LogParser.del_none
RECURSIVE del_none(_)
del_none(d) ==
    LET inner == [k \in DOMAIN d |->
                     IF d[k].t = "dict"
                     THEN [d[k] EXCEPT !.v = del_none(d[k].v)]
                     ELSE d[k]]
        deleted(k) ==
            LET value == inner[k]
            IN  \/ value.t = "dict" /\ DOMAIN value.v = {}
                \/ value.t = "list" /\ value.v = <<>>
                \/ value.t = "str"
                   /\ value.v \in {<<>>, <<"-">>, <<"null">>, <<"[]">>}
                \/ value.t = "none"
    IN  [k \in {x \in DOMAIN d : ~deleted(x)} |-> inner[k]]

\* ------------------------------------------------- sizes of values
\* A str may carry its size: n characters of w UTF-8 bytes each followed by
\* a ASCII characters.  A str without a size is short ASCII text.
Sized(tokens, n, w) == [t |-> "str", v |-> tokens, n |-> n, w |-> w, a |-> 0]
HasSize(value) == "n" \in DOMAIN value

\* len(value)
chars(value) ==
    IF HasSize(value) THEN value.n + value.a ELSE 8 * Len(value.v)

\* len(value.encode('utf-8'))
bytes(value) ==
    IF HasSize(value) THEN value.n * value.w + value.a ELSE 8 * Len(value.v)

\* the characters json.dumps writes for one character of w bytes: itself,
\* \uXXXX, or a surrogate pair
escaped(w) == IF w = 1 THEN 1 ELSE IF w = 4 THEN 12 ELSE 6

RECURSIVE SumOver(_, _)
SumOver(f, keys) ==
    IF keys = {} THEN 0
    ELSE LET k == CHOOSE x \in keys : TRUE
         IN  f[k] + SumOver(f, keys \ {k})

\* len(json.dumps(value)); a key is counted as 8 characters
RECURSIVE dumps_len(_)
dumps_len(value) ==
    CASE value.t = "none" -> 4
      [] value.t = "bool" -> IF value.v THEN 4 ELSE 5
      [] value.t = "str" ->
            2 + (IF HasSize(value)
                 THEN value.n * escaped(value.w) + value.a
                 ELSE 8 * Len(value.v))
      [] value.t = "list" ->
            2 + SumOver([i \in DOMAIN value.v |-> 2 + dumps_len(value.v[i])],
                        DOMAIN value.v)
      [] value.t = "dict" ->
            2 + SumOver([k \in DOMAIN value.v |->
                            14 + dumps_len(value.v[k])], DOMAIN value.v)

\* --------------------------------------------- LogParser.truncate_txt
\* the characters of width w left by encode('utf-8')[:num].decode(), which
\* fails inside a character and is tried again with num - 1
RECURSIVE truncate_txt(_, _, _)
truncate_txt(n, w, num) ==
    IF num >= n * w THEN n
    ELSE IF num % w = 0 THEN num \div w
    ELSE truncate_txt(n, w, num - 1)

\* truncate_txt(value, TruncateAt) + '<<TRUNCATED>>'
truncated(value) ==
    LET n == IF HasSize(value) THEN value.n ELSE 8 * Len(value.v)
        w == IF HasSize(value) THEN value.w ELSE 1
        a == IF HasSize(value) THEN value.a ELSE 0
        kept == truncate_txt(n, w, TruncateAt)
        tail == IF TruncateAt > n * w THEN Min(a, TruncateAt - n * w) ELSE 0
    IN  [t |-> "str", v |-> value.v \o <<"<<TRUNCATED>>">>,
         n |-> kept, w |-> w, a |-> tail + TruncatedMarkLen]

\* the test of truncate_big_field on one key and value
is_big_field(key, value) ==
    /\ value.t = "str"
    /\ chars(value) >= MinBigChars
    /\ bytes(value) >= LuceneMaxBytes
    /\ key # "@message"

\* ------------------------------------------ LogParser.truncate_big_field
RECURSIVE truncate_big_field(_)
truncate_big_field(d) ==
    [k \in DOMAIN d |->
        IF d[k].t = "dict"
        THEN [d[k] EXCEPT !.v = truncate_big_field(d[k].v)]
        ELSE IF is_big_field(k, d[k]) THEN truncated(d[k])
        ELSE d[k]]

\* whether truncate_big_field truncates a field of d, and so reads doc_id
RECURSIVE truncates(_)
truncates(d) ==
    \E k \in DOMAIN d :
        IF d[k].t = "dict" THEN truncates(d[k].v) ELSE is_big_field(k, d[k])

\* ---------------------------------------------------- LogParser.json
json(d) ==
    LET cleaned == del_none(d)
        loaded_len == dumps_len(Dict(cleaned))
        cut == truncate_big_field(cleaned)
        final == IF loaded_len < MaxLoadedLen THEN cleaned
                 ELSE IF truncates(cleaned) THEN doc_id(cut).dict
                 ELSE cut
    IN  [value |-> [doc |-> final, len |-> dumps_len(Dict(final))],
         dict |-> final]

\* ----------------------------------------------------------- inputs
\* the fields of a record: the id, the account and the region it reports
FieldSets ==
    LET id == "id" :> Str(<<"evt-1">>)
    IN  { id, id @@ ("region" :> Str(<<"eu-west-1">>)) }
        \cup { id @@ ("account" :> Str(<<a>>)) : a \in {"unknown", "999"} }
        \cup { id @@ ("account" :> Str(<<"999">>))
                  @@ ("region" :> Str(<<"eu-west-1">>)),
               "region" :> Str(<<"eu-west-1">>) }

FirelensFields == "id" :> Str(<<"evt-1">>)

\* the texts of the log: JSON, a line log_pattern matches, and neither
LogTexts(fields) ==
    { JsonText(<<"{\"id\": ..}">>, fields),
      PatternText(<<"GET / 200">>, fields),
      Str(<<"boom">>) }

FirelensArn ==
    Str(<<"arn", ":", "aws", ":", "ecs", ":", "ap-northeast-1", ":",
          "222", ":", "task/t1">>)

\* the lines FireLens writes: with and without the container name, from
\* stdout and stderr
FirelensLines ==
    { [k \in (IF named THEN {"container_name"} ELSE {})
             \cup {"container_id", "source", "ecs_cluster", "ecs_task_arn",
                   "ecs_task_definition", "log"} |->
          CASE k = "container_name" -> Str(<<"app">>)
            [] k = "container_id" -> Str(<<"c1">>)
            [] k = "source" -> Str(<<source>>)
            [] k = "ecs_cluster" -> Str(<<"cluster">>)
            [] k = "ecs_task_arn" -> FirelensArn
            [] k = "ecs_task_definition" -> Str(<<"task:1">>)
            [] k = "log" -> log] :
      named \in BOOLEAN, source \in {"stdout", "stderr"},
      log \in LogTexts(FirelensFields) }

\* the meta extract_cwl_log yields with a record
CwlMeta ==
    ("cwl_accountid" :> Str(<<"333">>)) @@ ("loggroup" :> Str(<<"group">>))
    @@ ("logstream" :> Str(<<"stream">>))

\* the meta check_cwe_and_strip_header makes for a record that is a
\* CloudWatch event
CweMeta ==
    ("cwe_id" :> Str(<<"e1">>)) @@ ("cwe_source" :> Str(<<"aws.health">>))
    @@ ("cwe_accountid" :> Str(<<"444">>))
    @@ ("cwe_region" :> Str(<<"sa-east-1">>))
    @@ ("cwe_timestamp" :> Str(<<"time">>))

\* the pairs the other readers yield
PlainYields ==
    { [logdata |-> IF file_format = "json" THEN json_loads(text) ELSE text,
       logmeta |-> meta] :
      text \in UNION { IF file_format = "json"
                       THEN {JsonText(<<"{\"id\": ..}">>, f)}
                       ELSE {PatternText(<<"GET / 200">>, f), Str(<<"boom">>)} :
                       f \in FieldSets },
      meta \in IF via_cwl THEN {CwlMeta}
                ELSE IF file_format = "json" THEN {EmptyDict, CweMeta}
                ELSE {EmptyDict} }

ParserConfig ==
    [file_format |-> "json", via_cwl |-> FALSE, via_firelens |-> FALSE,
     text_header_line_number |-> 0, json_delimiter |-> FALSE,
     max_log_count |-> MaxMaxLogCount, s3_key_ignored |-> {},
     ignore_container_stderr |-> FALSE, doc_id |-> "", doc_id_suffix |-> "",
     cloud_provider |-> "", script_ecs |-> FALSE, index_name |-> "log-app",
     index_rotation |-> "daily", ecs_version |-> "1.10.0",
     ecs_account |-> "account", ecs_region |-> "region"]

\* FireLens needs the cloud fields; the script is tried on plain JSON
ParserConfigs ==
    { c \in { [ParserConfig EXCEPT !.file_format = f, !.via_cwl = via[1],
                                   !.via_firelens = via[2],
                                   !.ignore_container_stderr = via[3],
                                   !.doc_id = id, !.cloud_provider = provider,
                                   !.script_ecs = script] :
               f \in {"json", "text"},
               via \in {<<FALSE, FALSE, FALSE>>, <<TRUE, FALSE, FALSE>>,
                        <<FALSE, TRUE, FALSE>>, <<FALSE, TRUE, TRUE>>},
               id \in {"", "id"}, provider \in {"", "aws"},
               script \in BOOLEAN } :
        /\ c.via_firelens => (c.cloud_provider = "aws" /\ ~c.script_ecs)
        /\ c.via_cwl => (c.file_format = "json" /\ ~c.script_ecs)
        /\ c.script_ecs => c.file_format = "json" }

\* the LogS3 the LogParser is made for, after its construction
LogS3Read ==
    /\ record = [s3 |-> [bucket |-> [name |-> S3Bucket],
                         object |-> [key |-> KeyNormal]]]
    /\ logtype = <<"elb">>
    /\ sqs_queue = FALSE
    /\ s3obj = [size |-> MinS3Size, body |-> <<>>]
    /\ pc = "constructed"
    /\ metadata = <<>>
    /\ fetched = TRUE
    /\ rawdata = <<>>
    /\ is_ignored = FALSE
    /\ ignored_reason = NoReason
    /\ log_count = NotCached
    /\ total_log_count = NotCached
    /\ window = <<>>
    /\ yielded = <<>>
    /\ sqs_calls = <<>>
    /\ queue = {}
    /\ enqueued = 0

logs3vars == <<record, pc, metadata, fetched, rawdata, is_ignored,
               ignored_reason, log_count, total_log_count, window, yielded,
               sqs_calls, queue, enqueued>>

\* the LogParser that __init__ makes for logfile
new_parser(logfile) ==
    [logfile |-> logfile, accountid |-> logfile.accountid,
     region |-> logfile.region, loggroup |-> None, logstream |-> None,
     skip_normalization |-> FALSE]

\* LogParser.__init__: the account and region are those of the s3 key
InitParser ==
    /\ LogS3Read
    /\ logconfig \in ParserConfigs
    /\ lp_pc = "ready"
    /\ logdata = None
    /\ logmeta = EmptyDict
    /\ logdata_dict = EmptyDict
    /\ \E known \in BOOLEAN :
          logparser = new_parser(
              [accountid |-> IF known THEN Str(<<"111">>) ELSE None,
               region |-> IF known THEN Str(<<"us-east-1">>) ELSE None])
    /\ reads = <<>>
    /\ normalized = 0

\* ---------------------------------------------------------- actions
\* the reader yields the next pair to the caller
YieldLog ==
    /\ lp_pc \in {"ready", "ignored", "normalized"}
    /\ normalized < MaxRecords
    /\ \E pair \in IF via_firelens
                   THEN {extract_firelens_line(obj) : obj \in FirelensLines}
                   ELSE PlainYields :
          /\ logdata' = pair.logdata
          /\ logmeta' = pair.logmeta
    /\ lp_pc' = "yielded"
    /\ reads' = <<>>
    /\ UNCHANGED <<logtype, logconfig, s3obj, sqs_queue, logs3vars,
                   logdata_dict, logparser, normalized>>

\* LogParser.__call__(data, meta) up to transform_to_ecs on the instance
\* lp0 whose __logdata_dict is old, with no timestamp_key, json_to_text,
\* static_ecs or geoip configured
parser_call(lp0, old, data, meta) ==
    LET lp == call_fields(lp0, meta)
        parsed == logdata_to_dict(data, meta)
        merged == with_firelens_meta(parsed.dict, meta)
        skipped == set_skip_normalization(merged)
        basic == add_basic_field(skipped.dict, data, lp, skipped.skip)
        ecs == transform_to_ecs(basic.dict, meta, lp)
        lp_skip == [lp EXCEPT !.skip_normalization = skipped.skip]
    IN  IF parsed.raised
        THEN [pc |-> "raised", lp |-> lp, dict |-> old]
        ELSE IF parser_is_ignored(merged)
        THEN [pc |-> "ignored", lp |-> lp, dict |-> merged]
        ELSE IF basic.raised
        THEN [pc |-> "raised", lp |-> lp_skip, dict |-> basic.dict]
        ELSE IF ecs.raised
        THEN [pc |-> "raised", lp |-> lp_skip, dict |-> ecs.dict]
        ELSE [pc |-> "normalized", lp |-> lp_skip, dict |-> ecs.dict]

\* LogParser.__call__(logdata, logmeta); sentinels is what the script sets
LogParserCall(sentinels) ==
    /\ lp_pc = "yielded"
    /\ logconfig.script_ecs \/ sentinels = {}
    /\ LET r == parser_call(logparser, logdata_dict, logdata, logmeta)
       IN  /\ lp_pc' = r.pc
           /\ logparser' = r.lp
           /\ logdata_dict' = IF r.pc = "normalized"
                              THEN transform_by_script(r.dict, sentinels)
                              ELSE r.dict
    /\ normalized' = normalized + 1
    /\ UNCHANGED <<logtype, logconfig, s3obj, sqs_queue, logs3vars,
                   logdata, logmeta, reads>>

\* one read of a property by the caller
Read(name, result) ==
    /\ lp_pc = "normalized"
    /\ Len(reads) < MaxReads
    /\ reads' = Append(reads, [name |-> name, value |-> result.value])
    /\ logdata_dict' = result.dict
    /\ UNCHANGED <<logtype, logconfig, s3obj, sqs_queue, logs3vars,
                   lp_pc, logdata, logmeta, logparser, normalized>>

ReadDocId == Read("doc_id", doc_id(logdata_dict))

ReadIndexname == Read("indexname", indexname(logdata_dict))

ReadJson == Read("json", json(logdata_dict))

Sentinels == SUBSET {"__doc_id_suffix", "__index_name"}

NextParser ==
    \/ YieldLog
    \/ \E sentinels \in Sentinels : LogParserCall(sentinels)
    \/ ReadDocId
    \/ ReadIndexname
    \/ ReadJson

SpecParser == InitParser /\ [][NextParser]_vars

\* ------------------------------------ json as a function of the document
\* values without a value, values with one, and their nestings
Leaves ==
    { None, Str(<<>>), Str(<<"-">>), Str(<<"null">>), Str(<<"[]">>),
      Str(<<"ok">>), Bool(FALSE), List(<<>>), Dict(EmptyDict) }

RECURSIVE NestedValues(_)
NestedValues(depth) ==
    IF depth = 0 THEN Leaves
    ELSE LET below == NestedValues(depth - 1)
         IN  below
             \cup { Dict("k" :> x) : x \in below }
             \cup { Dict(("k" :> x) @@ ("kept" :> Str(<<"ok">>))) :
                    x \in Leaves }
             \cup { List(<<x>>) :
                    x \in {None, Str(<<"-">>), Dict("k" :> None)} }

\* the strings around the limits of truncate_big_field: n characters of w
\* bytes
BigStrings ==
    { Sized(<<"text">>, n, w) :
      n \in {MinBigChars - 1, MinBigChars, LuceneMaxBytes - 1,
             LuceneMaxBytes, MaxLoadedLen},
      w \in 1..4 }

BasicFields ==
    ("@id" :> Md5(<<"text">>)) @@ ("@message" :> Str(<<"text">>))

JsonDocs ==
    { BasicFields @@ ("field" :> x) : x \in NestedValues(MaxDepth) }
    \cup { BasicFields @@ ("field" :> x) : x \in BigStrings }
    \cup { BasicFields @@ ("field" :> Dict("k" :> x)) : x \in BigStrings }
    \cup { ("@message" :> x) @@ BasicFields : x \in BigStrings }

InitJson ==
    /\ LogS3Read
    /\ logconfig = ParserConfig
    /\ lp_pc = "normalized"
    /\ logdata = None
    /\ logmeta = EmptyDict
    /\ logdata_dict \in JsonDocs
    /\ logparser = [logfile |-> [accountid |-> None, region |-> None],
                    accountid |-> None, region |-> None, loggroup |-> None,
                    logstream |-> None, skip_normalization |-> FALSE]
    /\ reads = <<>>
    /\ normalized = 1

SpecJson == InitJson /\ [][ReadJson]_vars

\* ================================================================= claims

\* C1: for log_count >= 1 and max_log_count >= 1, split_logs returns exactly
\* ceil(log_count / max_log_count) inclusive 1-based ranges, the first
\* starting at 1, each next one starting right after the previous end, the
\* last ending at log_count, each of at most max_log_count numbers.
SplitLogsPartition ==
    pc = "split_done" =>
        LET n == Len(metadata)
        IN  /\ n * max_log_count >= log_count
            /\ (n - 1) * max_log_count < log_count
            /\ metadata[1][1] = 1
            /\ metadata[n][2] = log_count
            /\ \A k \in 2..n : metadata[k][1] = metadata[k - 1][2] + 1
            /\ \A k \in 1..n :
                  /\ metadata[k][1] <= metadata[k][2]
                  /\ metadata[k][2] - metadata[k][1] + 1 <= max_log_count

SplitLogsShortLast ==
    /\ pc = "split_done"
    /\ Len(metadata) >= 3
    /\ log_count % max_log_count # 0

\* the split reason with the number of pieces N
SplitReasonOf(n) ==
    <<"Log file was split into ", n, " pieces and sent to SQS.">>

AllAccepted ==
    /\ sqs_calls # <<>>
    /\ \A c \in DOMAIN sqs_calls : sqs_calls[c].HTTPStatusCode = HttpOk

AllEntries == Concat([c \in DOMAIN sqs_calls |-> sqs_calls[c].Entries])

\* C2: the object is split and jobs are submitted only when
\* log_count > max_log_count; with 1 <= log_count <= max_log_count nothing is
\* submitted, the object is not marked ignored and the records of the
\* window are yielded.
SplitOnlyAboveMax ==
    (pc \in {"done", "raised"} /\ log_count >= 1
     /\ log_count <= max_log_count) =>
        /\ sqs_calls = <<>>
        /\ ~is_ignored
        /\ window # <<>>
        /\ yielded = read_window(window[1], window[2])

\* the records one descriptor yields when it is run as its own job
ShardJobRecords(d) ==
    LET rec == queue_body(d[1], d[2])
    IN  logdata_generator(rec, log_count_prop(rec).value).records

\* the records of one pass over the whole object
UnshardedPass == read_window(ignore_header_line_number, log_count)

\* C3: for an object that was split, the records of the shard jobs,
\* concatenated in shard order, are the records of one unsharded pass over
\* the whole object: none missing, none duplicated.
ShardsCoverObject ==
    (pc = "done" /\ end_number = 0 /\ metadata # <<>>) =>
        Concat([k \in DOMAIN metadata |-> ShardJobRecords(metadata[k])])
            = UnshardedPass

\* C4: for a job with a shard range, set_start_end_position returns
\* start = start_number - 1 and end = end_number, whatever the format and
\* the header line count.
ShardWindowIsRange ==
    (pc = "done" /\ end_number # 0 /\ window # <<>>) =>
        window = <<start_number - 1, end_number>>

\* the records of the object by 0-based position, as the readers number
\* them; a multiline record is named by its first line
RECURSIVE FirstLines(_, _)
FirstLines(body, i) ==
    IF i > Len(body) THEN <<>>
    ELSE (IF body[i] THEN << <<i>> >> ELSE <<>>) \o FirstLines(body, i + 1)

IsMultilineShape ==
    ~via_cwl /\ ~via_firelens /\ file_format = "multiline"

Positions ==
    IF via_cwl THEN cwl_events(rawdata, 1)
    ELSE IF via_firelens \/ file_format \in {"text", "csv"}
    THEN [i \in DOMAIN rawdata |-> <<rawdata[i]>>]
    ELSE IF file_format = "json"
    THEN json_events(rawdata, logconfig.json_delimiter, 1, 1)
    ELSE FirstLines(rawdata, 1)

RecordName(r) == IF IsMultilineShape THEN <<Head(r)>> ELSE r

\* C5: every reader honours the half-open window [s, e): when the object
\* has at least e records, exactly e - s records are yielded (which is
\* total_log_count), the first the record at position s and the last the
\* record at position e - 1.
ReadersHonourWindow ==
    (pc = "done" /\ window # <<>> /\ window[1] <= window[2]
     /\ Len(Positions) >= window[2]) =>
        /\ Len(yielded) = window[2] - window[1]
        /\ total_log_count = window[2] - window[1]
        /\ window[1] < window[2] =>
              /\ RecordName(yielded[1]) = Positions[window[1] + 1]
              /\ RecordName(yielded[Len(yielded)]) = Positions[window[2]]

\* C6: an object processed without a shard range and without being split
\* yields exactly as many records as log_count reports.
IterateCountIsLogCount ==
    (pc = "done" /\ end_number = 0 /\ window # <<>>) =>
        Len(yielded) = log_count

\* C7: when the object is split and every submission is answered with 200,
\* the invocation yields no record, is_ignored is true and ignored_reason
\* names N pieces, N being the number of descriptors of split_logs and of
\* queue entries submitted.
SplitMarksIgnored ==
    AllAccepted =>
        /\ pc = "done"
        /\ yielded = <<>>
        /\ is_ignored
        /\ metadata # <<>>
        /\ ignored_reason = SplitReasonOf(Len(metadata))
        /\ Len(AllEntries) = Len(metadata)

SplitInTwoCalls ==
    /\ AllAccepted
    /\ pc = "done"
    /\ Len(sqs_calls) >= 2

\* C8: every descriptor is submitted exactly once and in order, in calls of
\* 1 to 10 entries, all but the last of exactly 10 (ceil(N / 10) calls);
\* each entry has Id num_<start> and the job envelope of the same bucket and
\* key with the shard's start_number and end_number; no two entries of a
\* call share an Id.
SqsBatches ==
    (pc = "done" /\ sqs_calls # <<>>) =>
        LET n == Len(metadata)
            calls == Len(sqs_calls)
        IN  /\ Len(AllEntries) = n
            /\ \A i \in 1..n :
                  AllEntries[i] =
                      [Id |-> <<"num_", metadata[i][1]>>,
                       MessageBody |->
                           [siem |-> [start_number |-> metadata[i][1],
                                      end_number |-> metadata[i][2]],
                            s3 |-> record.s3]]
            /\ \A c \in 1..(calls - 1) :
                  Len(sqs_calls[c].Entries) = SqsBatchSize
            /\ Len(sqs_calls[calls].Entries) \in 1..SqsBatchSize
            /\ calls * SqsBatchSize >= n
            /\ (calls - 1) * SqsBatchSize < n
            /\ \A c \in 1..calls :
                  \A i, j \in DOMAIN sqs_calls[c].Entries :
                      sqs_calls[c].Entries[i].Id = sqs_calls[c].Entries[j].Id
                          => i = j

SplitWithShortLastCall ==
    /\ pc = "done"
    /\ Len(sqs_calls) = 3
    /\ Len(sqs_calls[3].Entries) < SqsBatchSize

\* C9: when the queue answers a submission with a status other than 200,
\* processing aborts at that call: no later batch is submitted, the batches
\* submitted before stay in the queue, no record is yielded and the object
\* is not marked ignored or split.
DispatchFailureAborts ==
    /\ \A c \in 1..(Len(sqs_calls) - 1) :
          sqs_calls[c].HTTPStatusCode = HttpOk
    /\ (pc = "raised") <=>
          (sqs_calls # <<>>
           /\ sqs_calls[Len(sqs_calls)].HTTPStatusCode # HttpOk)
    /\ pc = "raised" =>
          /\ yielded = <<>>
          /\ ~is_ignored
          /\ ignored_reason = NoReason
          /\ total_log_count = NotCached
          /\ \A c \in 1..(Len(sqs_calls) - 1) :
                \A e \in DOMAIN sqs_calls[c].Entries :
                    sqs_calls[c].Entries[e].MessageBody \in queue
          /\ \A i \in 1..Len(AllEntries) :
                AllEntries[i].MessageBody.siem =
                    [start_number |-> metadata[i][1],
                     end_number |-> metadata[i][2]]

DispatchFailedMidway ==
    /\ pc = "raised"
    /\ Len(sqs_calls) = 2
    /\ Len(metadata) > 2 * SqsBatchSize

\* C10: for every format, via_cwl included, an object with no shard range
\* whose log_count is 0 is ignored once log_count was evaluated: is_ignored
\* is true and a reason is recorded.
ZeroCountIgnored ==
    (log_count = 0 /\ end_number = 0) =>
        /\ is_ignored
        /\ ignored_reason # NoReason

\* the ignore rules that need no look at the object
IgnoredByName ==
    \/ s3key[Len(s3key)] = "/"
    \/ \E i \in DOMAIN logtype : logtype[i] = "unknown"
    \/ s3key \in logconfig.s3_key_ignored

\* C11: when the key ends with "/", the logtype contains "unknown",
\* s3_key_ignored matches the key or the reported size is below 20 bytes,
\* the LogS3 is ignored with a recorded reason from its construction on,
\* iterating it yields no record and submits nothing to the queue; in the
\* first three cases the object is never fetched.
ConstructorIgnoreRules ==
    ((IgnoredByName \/ s3obj.size < MinS3Size) /\ pc # "received") =>
        /\ is_ignored
        /\ ignored_reason # NoReason
        /\ yielded = <<>>
        /\ sqs_calls = <<>>
        /\ queue = {}
        /\ pc # "raised"
        /\ IgnoredByName => ~fetched

IgnoredSmallObjectIterated ==
    /\ pc = "done"
    /\ ~IgnoredByName
    /\ s3obj.size < MinS3Size
    /\ fetched
    /\ sqs_queue
    /\ Len(s3obj.body) >= max_log_count

\* a multiline record as the body defines it: the first line at i and the
\* lines after it up to the next first line
RECURSIVE Continuation(_, _)
Continuation(body, i) ==
    IF i > Len(body) \/ body[i] THEN <<>>
    ELSE <<i>> \o Continuation(body, i + 1)

\* C12: every record the multiline reader yields is one line matching
\* multiline_firstline followed by the lines up to, not including, the next
\* matching line or EOF; the last record of a window holds no line of a
\* record beyond end.
MultilineRecordsWhole ==
    (pc = "done" /\ IsMultilineShape /\ window # <<>>) =>
        \A k \in DOMAIN yielded :
            /\ rawdata[Head(yielded[k])]
            /\ yielded[k] = <<Head(yielded[k])>>
                   \o Continuation(rawdata, Head(yielded[k]) + 1)

\* the count of the whole object, as the first job of the object finds it
ObjectLogCount ==
    log_count_prop([s3 |-> record.s3]).value

\* C20: a job that carries a shard range never submits continuation jobs,
\* for every format, so the jobs ever enqueued for one object number
\* ceil(log_count / max_log_count).
ShardJobsNeverSplit ==
    /\ end_number # 0 => (sqs_calls = <<>> /\ metadata = <<>>)
    /\ (pc \in {"done", "raised"} /\ enqueued > 0) =>
           (enqueued - 1) * max_log_count < ObjectLogCount

\* C13: every FireLens line of a json object whose inner log is not valid
\* JSON, from stdout or stderr, is yielded with __skip_normalization = true
\* and __error_message = 'Invalid file format found during parsing' in its
\* meta.
InvalidInnerJsonMarked ==
    (lp_pc = "yielded" /\ via_firelens /\ file_format = "json"
     /\ logdata.t = "str") =>
        /\ Get(logmeta, "__skip_normalization") = Bool(TRUE)
        /\ Get(logmeta, "__error_message") = invalid_format_message

\* the text of the log of the yielded record
RawLogText ==
    IF logdata.t = "dict" THEN logdata.src ELSE logdata.v

FromStderr ==
    /\ via_firelens
    /\ lp_pc \in {"ignored", "normalized", "raised"}
    /\ Get(logmeta, "container_source") = Str(<<"stderr">>)

\* C14: a FireLens record from stderr is ignored and gives no document when
\* ignore_container_stderr is true; otherwise it is normalized with the
\* normalization skipped, its document has error.message = the raw log text,
\* neither __skip_normalization nor __error_message, and
\* @id = MD5(@message + s3key); for every file_format, with or without
\* container_name in the line.
StderrRecordHandled ==
    FromStderr =>
        IF logconfig.ignore_container_stderr
        THEN lp_pc = "ignored"
        ELSE /\ lp_pc = "normalized"
             /\ logparser.skip_normalization
             /\ HasKey(logdata_dict, "error")
             /\ Get(logdata_dict["error"].v, "message").v = RawLogText
             /\ ~HasKey(logdata_dict, "__skip_normalization")
             /\ ~HasKey(logdata_dict, "__error_message")
             /\ logdata_dict["@id"]
                    = Md5(logdata_dict["@message"].v \o s3key)

\* C15 as stated: the @id of every normalized record is an MD5 hex digest,
\* never the raw value of a field.
IdIsAlwaysMd5 ==
    lp_pc = "normalized" => IsMd5(logdata_dict["@id"])

\* C15: the @id of every normalized record is the MD5 hex digest of @message
\* followed by the s3 key when normalization was skipped; otherwise the value
\* of the record's doc_id field as it is, not hashed, when doc_id is
\* configured; otherwise the MD5 hex digest of @message.
IdIsDigestOrDocIdField ==
    lp_pc = "normalized" =>
        logdata_dict["@id"] =
            IF logparser.skip_normalization
            THEN Md5(logdata_dict["@message"].v \o s3key)
            ELSE IF logconfig.doc_id # ""
            THEN logdata_dict[logconfig.doc_id]
            ELSE Md5(logdata_dict["@message"].v)

IdFromDocIdField ==
    /\ lp_pc = "normalized"
    /\ ~logparser.skip_normalization
    /\ logconfig.doc_id = "id"
    /\ logdata_dict["@id"] = Str(<<"evt-1">>)
    /\ logdata_dict["@message"].v # <<"evt-1">>

SentinelKeys == {"__doc_id_suffix", "__index_name"}

\* C16: the document returned by json never holds the sentinel keys
\* __doc_id_suffix or __index_name of the script transform, whatever reads
\* of doc_id, indexname and json the caller makes and in whatever order.
JsonHasNoSentinel ==
    \A i \in DOMAIN reads :
        reads[i].name = "json" =>
            DOMAIN reads[i].value.doc \cap SentinelKeys = {}

\* the fields the yielded record was parsed into
RecordFields ==
    IF logdata.t = "dict" THEN logdata.v
    ELSE IF MatchesPattern(logdata) THEN logdata.groups
    ELSE EmptyDict

\* the account id and region C19 states for the record
ExpectedAccountId ==
    LET mapped == Get(RecordFields, logconfig.ecs_account)
    IN  IF Truthy(mapped) /\ mapped # Str(<<"unknown">>) THEN mapped
        ELSE IF Truthy(logparser.accountid) THEN logparser.accountid
        ELSE Str(<<"unknown">>)

ExpectedRegion ==
    LET mapped == Get(RecordFields, logconfig.ecs_region)
    IN  IF Truthy(mapped) THEN mapped
        ELSE IF Truthy(logparser.region) THEN logparser.region
        ELSE Str(<<"unknown">>)

\* C19: with cloud_provider configured every emitted document holds
\* cloud.provider, cloud.account.id and cloud.region; for a record that is
\* not from FireLens cloud.account.id is the mapped value unless that is
\* absent or 'unknown', then the record's account id when known and
\* 'unknown' otherwise, and cloud.region is the mapped value, else the
\* record's region, else 'unknown'.
CloudFieldsPresent ==
    \A i \in DOMAIN reads :
        (reads[i].name = "json" /\ logconfig.cloud_provider # "") =>
            LET doc == reads[i].value.doc
            IN  /\ HasKey(doc, "cloud")
                /\ HasKey(doc["cloud"].v, "provider")
                /\ HasKey(doc["cloud"].v, "account")
                /\ HasKey(doc["cloud"].v["account"].v, "id")
                /\ HasKey(doc["cloud"].v, "region")
                /\ ~via_firelens =>
                      /\ doc["cloud"].v["account"].v["id"] = ExpectedAccountId
                      /\ doc["cloud"].v["region"] = ExpectedRegion

\* a value that stands for no value
IsNoValue(value) ==
    \/ value.t = "none"
    \/ value.t = "dict" /\ DOMAIN value.v = {}
    \/ value.t = "list" /\ value.v = <<>>
    \/ value.t = "str" /\ value.v \in {<<>>, <<"-">>, <<"null">>, <<"[]">>}

\* every key of every map in value, at any depth, has a value
RECURSIVE KeysHaveValues(_)
KeysHaveValues(value) ==
    IF value.t = "dict"
    THEN \A k \in DOMAIN value.v :
            ~IsNoValue(value.v[k]) /\ KeysHaveValues(value.v[k])
    ELSE IF value.t = "list"
    THEN \A i \in DOMAIN value.v : KeysHaveValues(value.v[i])
    ELSE TRUE

\* C17: in every document emitted by json no key at any nesting depth has a
\* value that is null, an empty map, an empty list or one of '', '-',
\* 'null', '[]'; a nested map emptied by the removals is removed too.
EmittedKeysHaveValues ==
    \A i \in DOMAIN reads :
        reads[i].name = "json" => KeysHaveValues(Dict(reads[i].value.doc))

\* every str field of d but @message is below the limit of Lucene
RECURSIVE FieldsBelowLimit(_)
FieldsBelowLimit(d) ==
    \A k \in DOMAIN d :
        IF d[k].t = "dict" THEN FieldsBelowLimit(d[k].v)
        ELSE (d[k].t = "str" /\ k # "@message") =>
                 bytes(d[k]) < LuceneMaxBytes

\* C18: for every document emitted by json either its serialized length is
\* below 65,536 or every string field but @message has fewer than 32,766
\* UTF-8 bytes: a truncated field ends below 32,766 bytes and every field of
\* at least 32,766 bytes is truncated whatever its number of characters.
EmittedFieldsBelowLimit ==
    \A i \in DOMAIN reads :
        reads[i].name = "json" =>
            \/ reads[i].value.len < MaxLoadedLen
            \/ FieldsBelowLimit(reads[i].value.doc)

\* the same record given to a LogParser just made for the object
FreshCall ==
    parser_call(new_parser(logparser.logfile), EmptyDict, logdata, logmeta)

\* C21: a LogParser used for several records of an object keeps nothing of
\* the earlier records: the account id, region, log group and log stream it
\* normalizes a record with, and the document it makes of it, are those a
\* new LogParser gives for the same record.
NoProvenanceKept ==
    (lp_pc \in {"normalized", "ignored", "raised"} /\ reads = <<>>) =>
        /\ lp_pc = FreshCall.pc
        /\ logparser.accountid = FreshCall.lp.accountid
        /\ logparser.region = FreshCall.lp.region
        /\ logparser.loggroup = FreshCall.lp.loggroup
        /\ logparser.logstream = FreshCall.lp.logstream
        /\ lp_pc = "normalized" =>
              [k \in DOMAIN logdata_dict \ SentinelKeys |-> logdata_dict[k]]
                  = FreshCall.dict

\* C22: for one normalized record doc_id returns the same value on every
\* read, whatever was read before it; with __doc_id_suffix set by the script
\* every read returns '<@id>_<suffix>'.
DocIdReadsAgree ==
    \A i, j \in DOMAIN reads :
        (reads[i].name = "doc_id" /\ reads[j].name = "doc_id") =>
            reads[i].value = reads[j].value

====
